---- MODULE Spec2Model ----
(***************************************************************************)
(* RemoteSource (pythonz/apps/integration/base.py): a registry of remote   *)
(* data sources.  Declaring a subclass of RemoteSource runs                *)
(* __init_subclass__, which stores the class in registry[realm][alias]     *)
(* when its alias is non-empty.  registry is a defaultdict(dict) shared by *)
(* every class; get_sources / get_source / get_enum read it through        *)
(* cls.realm.                                                              *)
(***************************************************************************)
EXTENDS Integers, Sequences, FiniteSets, TLC

\* ------------------------------------------------------------------ bounds
MaxClasses == 2
MaxHeld == 1

\* ------------------------------------------------- values of the attributes
\* A class body either sets an attribute or leaves it to its base class.
Unset == "<unset>"
RealmChoices == {"vacancy", "event"}
AliasChoices == {"", "hh", "lnk"}
TitleChoices == {"HeadHunter", "LinkedIn"}
\* Aliases handed to get_source.
LookupAliases == {"hh", "lnk"}

\* The class RemoteSource itself; declared subclasses are numbered 1, 2, ...
RemoteSource == 0
\* Python's None (the result of dict.get on a missing key).
None == -1

\* The attributes set in the body of RemoteSource.
BaseAttrs ==
  [realm |-> "", alias |-> "", title |-> "", fetch_list |-> "RemoteSource.fetch_list"]

VARIABLES
  classes,    \* the subclasses declared so far, in declaration order
  registry,   \* RemoteSource.registry: realm -> dict (alias -> class)
  result,     \* the outcome of the last operation
  held        \* enumerations returned by earlier get_enum calls, kept by callers

vars == <<classes, registry, result, held>>

\* ------------------------------------------------------------------ dicts
\* A dict is a sequence of [key, value] items in insertion order, keys unique.
EmptyDict == << >>

DictKeys(d) == {d[i].key : i \in DOMAIN d}

DictValues(d) == {d[i].value : i \in DOMAIN d}

DictHas(d, k) == \E i \in DOMAIN d : d[i].key = k

\* d.get(k): the value stored under k, None when k is missing.
DictGet(d, k) ==
  IF DictHas(d, k) THEN d[CHOOSE i \in DOMAIN d : d[i].key = k].value ELSE None

\* d[k] = v written without the overwrite: a second item with the same key.
DictSetAppend(d, k, v) == Append(d, [key |-> k, value |-> v])

\* d[k] = v written as d.setdefault(k, v): the first value is kept.
DictSetKeepFirst(d, k, v) ==
  IF DictHas(d, k) THEN d ELSE Append(d, [key |-> k, value |-> v])

\* d[k] = v: replaces the value of an existing key in place, else appends.
DictSet(d, k, v) ==
  IF DictHas(d, k)
    THEN [i \in DOMAIN d |-> IF d[i].key = k THEN [key |-> k, value |-> v] ELSE d[i]]
    ELSE Append(d, [key |-> k, value |-> v])

\* -------------------------------------------------------- attribute lookup
\* Attribute lookup that skips the intermediate base classes.
GetAttrOwnOnly(cs, c, name) ==
  IF c = RemoteSource THEN BaseAttrs[name]
  ELSE IF cs[c][name] # Unset THEN cs[c][name]
  ELSE BaseAttrs[name]

RECURSIVE GetAttr(_, _, _)
\* cls.<name>: the class's own attribute, else its base class's, up to
\* RemoteSource.
GetAttr(cs, c, name) ==
  IF c = RemoteSource THEN BaseAttrs[name]
  ELSE IF cs[c][name] # Unset THEN cs[c][name]
  ELSE GetAttr(cs, cs[c].parent, name)

\* --------------------------------------------------------------- registry
\* registry: dict = defaultdict(dict)
EmptyRegistry == [r \in {} |-> EmptyDict]

\* registry[realm] = {} run on every access: the realm's sources are dropped.
GetItemReset(reg, realm) ==
  [r \in DOMAIN reg \cup {realm} |-> IF r = realm THEN EmptyDict ELSE reg[r]]

\* registry[realm] on the defaultdict: a missing key is first inserted with
\* an empty dict.  The registry after the access.
GetItem(reg, realm) ==
  IF realm \in DOMAIN reg THEN reg
  ELSE [r \in DOMAIN reg \cup {realm} |-> IF r = realm THEN EmptyDict ELSE reg[r]]

\* __init_subclass__ without the test of the alias.
init_subclass_unconditional(reg, cs, c) ==
  LET alias == GetAttr(cs, c, "alias")
      realm == GetAttr(cs, c, "realm")
  IN [GetItem(reg, realm) EXCEPT ![realm] = DictSet(@, alias, c)]

\* __init_subclass__ that files every class under RemoteSource.realm.
init_subclass_base_realm(reg, cs, c) ==
  LET alias == GetAttr(cs, c, "alias")
      realm == BaseAttrs.realm
  IN IF alias # ""
       THEN [GetItem(reg, realm) EXCEPT ![realm] = DictSet(@, alias, c)]
       ELSE reg

\* The registry after __init_subclass__ has run for the new class c.
__init_subclass__(reg, cs, c) ==
  LET alias == GetAttr(cs, c, "alias")
      realm == GetAttr(cs, c, "realm")
  IN IF alias # ""
       THEN [GetItem(reg, realm) EXCEPT ![realm] = DictSet(@, alias, c)]
       ELSE reg

\* get_sources that forgets the realm: the sources of every realm together.
RECURSIVE AllSources(_, _)
AllSources(reg, rs) ==
  IF rs = {} THEN EmptyDict
  ELSE LET r == CHOOSE x \in rs : TRUE IN reg[r] \o AllSources(reg, rs \ {r})

get_sources_any_realm(reg, cs, c) ==
  [registry |-> GetItem(reg, GetAttr(cs, c, "realm")),
   ret |-> AllSources(reg, DOMAIN reg),
   raised |-> ""]

\* cls.get_sources(): registry[cls.realm].
get_sources(reg, cs, c) ==
  LET realm == GetAttr(cs, c, "realm")
      reg1 == GetItem(reg, realm)
  IN [registry |-> reg1, ret |-> reg1[realm], raised |-> ""]

\* cls.get_source(alias): cls.get_sources().get(alias).
get_source(reg, cs, c, alias) ==
  LET s == get_sources(reg, cs, c)
  IN [registry |-> s.registry, ret |-> DictGet(s.ret, alias), raised |-> ""]

\* ------------------------------------------------------------ enumeration
\* Items whose label is the alias instead of the title.
EnumItemsAliasLabel(cs, d) ==
  [i \in DOMAIN d |-> [name |-> d[i].key, value |-> <<d[i].key, d[i].key>>]]

\* [(alias, (alias, source_cls.title)) for alias, source_cls in items()]
EnumItems(cs, d) ==
  [i \in DOMAIN d |->
     [name |-> d[i].key, value |-> <<d[i].key, GetAttr(cs, d[i].value, "title")>>]]

RECURSIVE EnumMembers(_, _)
\* The members the first n items define: an item whose value repeats an
\* earlier member's value is an alias of it, not a member; the last element
\* of the value tuple is the label, the rest the value.
EnumMembers(items, n) ==
  IF n = 0 THEN << >>
  ELSE LET prev == EnumMembers(items, n - 1)
           it == items[n]
       IN IF \E j \in DOMAIN prev : prev[j].value = it.value[1]
            THEN prev
            ELSE Append(prev, [name |-> it.name, value |-> it.value[1],
                               label |-> it.value[2]])

\* models.TextChoices('Source', items): a name used twice is a TypeError.
TextChoices(items) ==
  IF \E i, j \in DOMAIN items : i < j /\ items[i].name = items[j].name
    THEN [members |-> << >>, duplicates |-> FALSE, raised |-> "TypeError"]
    ELSE LET ms == EnumMembers(items, Len(items))
         IN [members |-> ms, duplicates |-> Len(ms) < Len(items), raised |-> ""]

\* enum.unique: a value used by two names is a ValueError.
unique(enum) ==
  IF enum.raised # "" THEN enum
  ELSE IF enum.duplicates THEN [enum EXCEPT !.members = << >>, !.raised = "ValueError"]
  ELSE enum

\* cls.get_enum()
get_enum(reg, cs, c) ==
  LET s == get_sources(reg, cs, c)
      enum == unique(TextChoices(EnumItems(cs, s.ret)))
  IN [registry |-> s.registry, ret |-> enum.members, raised |-> enum.raised]

\* self.fetch_list(): the method the class resolves to.
fetch_list(cs, c) ==
  IF GetAttr(cs, c, "fetch_list") = BaseAttrs.fetch_list
    THEN [ret |-> None, raised |-> "NotImplementedError"]
    ELSE [ret |-> None, raised |-> ""]

\* ------------------------------------------------------------ state machine
Classes == {RemoteSource} \cup DOMAIN classes

\* The shape of the state: the declared classes, and the registry as a map
\* from the realms accessed so far to dicts from alias to declared class.
TypeOK ==
  /\ Len(classes) <= MaxClasses
  /\ \A c \in DOMAIN classes :
       /\ classes[c].parent \in 0 .. (c - 1)
       /\ classes[c].realm \in RealmChoices \cup {Unset}
       /\ classes[c].alias \in AliasChoices \cup {Unset}
       /\ classes[c].title \in TitleChoices \cup {Unset}
       /\ classes[c].fetch_list \in {Unset, "override"}
  /\ DOMAIN registry \subseteq RealmChoices \cup {BaseAttrs.realm}
  /\ \A r \in DOMAIN registry : \A i \in DOMAIN registry[r] :
       /\ registry[r][i].key \in AliasChoices
       /\ registry[r][i].value \in DOMAIN classes
  /\ Len(held) <= MaxHeld

\* result: the operation, the class it was a declaration of or was called on
\* an instance of (cls), the realm and alias a registry query looked up, what
\* it returned (ret: a class or None; items: a dict or the members of an
\* enumeration) and the error it raised ("" for none).
NoResult ==
  [op |-> "init", cls |-> None, realm |-> "", alias |-> "", ret |-> None,
   items |-> << >>, raised |-> ""]

Init ==
  /\ classes = << >>
  /\ registry = EmptyRegistry
  /\ result = NoResult
  /\ held = << >>

\* class <new>(<parent>): realm = ...; alias = ...; title = ...; def fetch_list
Declare(parent, realm, alias, title, fl) ==
  /\ Len(classes) < MaxClasses
  /\ LET c == Len(classes) + 1
         cs == Append(classes, [parent |-> parent, realm |-> realm, alias |-> alias,
                                title |-> title, fetch_list |-> fl])
     IN /\ classes' = cs
        /\ registry' = __init_subclass__(registry, cs, c)
        /\ result' = [op |-> "declare", cls |-> c, realm |-> "", alias |-> "",
                      ret |-> None, items |-> << >>, raised |-> ""]
  /\ UNCHANGED held

Call_get_sources(c) ==
  /\ LET r == get_sources(registry, classes, c)
     IN /\ registry' = r.registry
        /\ result' = [op |-> "get_sources", cls |-> None, realm |-> GetAttr(classes, c, "realm"),
                      alias |-> "", ret |-> None, items |-> r.ret,
                      raised |-> r.raised]
  /\ UNCHANGED <<classes, held>>

Call_get_source(c, alias) ==
  /\ LET r == get_source(registry, classes, c, alias)
     IN /\ registry' = r.registry
        /\ result' = [op |-> "get_source", cls |-> None, realm |-> GetAttr(classes, c, "realm"),
                      alias |-> alias, ret |-> r.ret, items |-> << >>,
                      raised |-> r.raised]
  /\ UNCHANGED <<classes, held>>

\* A get_enum that hands out again the enumeration it made before.
Call_get_enum_cached(c, keep) ==
  /\ keep => Len(held) < MaxHeld
  /\ LET r == get_enum(registry, classes, c)
         realm == GetAttr(classes, c, "realm")
         old == {i \in DOMAIN held : held[i].realm = realm}
         ret == IF old = {} THEN r.ret ELSE held[CHOOSE i \in old : TRUE].enum
     IN /\ registry' = r.registry
        /\ result' = [op |-> "get_enum", cls |-> None, realm |-> GetAttr(classes, c, "realm"),
                      alias |-> "", ret |-> None, items |-> ret,
                      raised |-> r.raised]
        /\ held' = IF keep /\ r.raised = ""
                     THEN Append(held, [realm |-> realm, enum |-> ret])
                     ELSE held
  /\ UNCHANGED classes

\* cls.get_enum(); the caller keeps the enumeration (keep) or drops it.
Call_get_enum(c, keep) ==
  /\ keep => Len(held) < MaxHeld
  /\ LET r == get_enum(registry, classes, c)
     IN /\ registry' = r.registry
        /\ result' = [op |-> "get_enum", cls |-> None, realm |-> GetAttr(classes, c, "realm"),
                      alias |-> "", ret |-> None, items |-> r.ret,
                      raised |-> r.raised]
        /\ held' = IF keep /\ r.raised = ""
                     THEN Append(held, [realm |-> GetAttr(classes, c, "realm"),
                                        enum |-> r.ret])
                     ELSE held
  /\ UNCHANGED classes

Call_fetch_list(c) ==
  /\ LET r == fetch_list(classes, c)
     IN result' = [op |-> "fetch_list", cls |-> c, realm |-> "", alias |-> "",
                   ret |-> r.ret, items |-> << >>, raised |-> r.raised]
  /\ UNCHANGED <<classes, registry, held>>

\* Declarations of sources that set a realm and an alias and take title and
\* fetch_list from their base class: __init_subclass__, get_sources and
\* get_source read neither of the two.
DeclareStep ==
  \E parent \in Classes, realm \in RealmChoices \cup {Unset},
     alias \in AliasChoices \cup {Unset} :
    Declare(parent, realm, alias, Unset, Unset)

GetSourcesStep == \E c \in Classes : Call_get_sources(c)

GetSourceStep == \E c \in Classes, alias \in LookupAliases : Call_get_source(c, alias)

GetEnumStep == \E c \in Classes : Call_get_enum(c, FALSE)

Next ==
  \/ DeclareStep
  \/ GetSourcesStep
  \/ GetSourceStep
  \/ GetEnumStep

\* Declarations and the three registry queries.
Spec == Init /\ [][Next]_vars

\* Declarations of sources with and without a title of their own.
DeclareTitledStep ==
  \E parent \in Classes, realm \in RealmChoices \cup {Unset},
     alias \in AliasChoices \cup {Unset}, title \in TitleChoices \cup {Unset} :
    Declare(parent, realm, alias, title, Unset)

GetEnumKeepStep == \E c \in Classes, keep \in BOOLEAN : Call_get_enum(c, keep)

NextEnum ==
  \/ DeclareTitledStep
  \/ GetEnumKeepStep

\* Declarations and get_enum calls whose results callers keep.
SpecEnum == Init /\ [][NextEnum]_vars

\* Declarations of sources with and without a fetch_list of their own.
DeclareFetchStep ==
  \E parent \in Classes, alias \in AliasChoices \cup {Unset},
     fl \in {Unset, "override"} :
    Declare(parent, Unset, alias, Unset, fl)

FetchListStep == \E c \in Classes : Call_fetch_list(c)

NextFetch ==
  \/ DeclareFetchStep
  \/ FetchListStep

\* Declarations and fetch_list calls.
SpecFetch == Init /\ [][NextFetch]_vars

\* ------------------------------------------------------------- properties
AllRealms == RealmChoices \cup {BaseAttrs.realm}

\* The sources of a realm, whether or not the registry has a key for it.
Sources(reg, realm) == IF realm \in DOMAIN reg THEN reg[realm] ELSE EmptyDict

\* The declared classes whose realm and alias are R and a.
Declared(R, a) ==
  {c \in DOMAIN classes :
     GetAttr(classes, c, "realm") = R /\ GetAttr(classes, c, "alias") = a}

\* The most recently declared of them, None when there is none.
Latest(R, a) ==
  IF Declared(R, a) = {} THEN None
  ELSE CHOOSE c \in Declared(R, a) : \A d \in Declared(R, a) : d <= c

\* The class and its base classes below RemoteSource.
RECURSIVE Lineage(_)
Lineage(c) == IF c = RemoteSource THEN {} ELSE {c} \cup Lineage(classes[c].parent)

\* A step that declares a class; the class is Len(classes').
IsDeclaration == Len(classes') = Len(classes) + 1

\* A step that is a call of get_sources, get_source or get_enum: only these
\* leave such a result.
IsQuery == result'.op \in {"get_sources", "get_source", "get_enum"}

\* C1: right after a class with a non-empty alias a is declared for realm R,
\* get_sources for R has the key a and get_source(a) for R returns that class.
C1_DeclaredIsRegistered ==
  [][IsDeclaration =>
       LET c == Len(classes')
           a == GetAttr(classes', c, "alias")
       IN a # "" =>
            /\ DictHas(get_sources(registry', classes', c).ret, a)
            /\ get_source(registry', classes', c, a).ret = c]_vars

C1_Witness ==
  /\ result.op = "declare"
  /\ GetAttr(classes, result.cls, "alias") # ""
  /\ GetAttr(classes, result.cls, "realm") \in RealmChoices
  /\ get_source(registry, classes, result.cls,
                GetAttr(classes, result.cls, "alias")).ret = result.cls

\* C2: a class whose alias is empty is never a value of the registry nor a
\* result of get_sources or get_source, and declaring it leaves the registry
\* as it was.
C2_NoEmptyAlias ==
  /\ \A r \in DOMAIN registry : \A c \in DictValues(registry[r]) :
       GetAttr(classes, c, "alias") # ""
  /\ result.op = "get_source" /\ result.ret # None =>
       GetAttr(classes, result.ret, "alias") # ""
  /\ result.op = "get_sources" =>
       \A c \in DictValues(result.items) : GetAttr(classes, c, "alias") # ""

C2_EmptyAliasNotRegistered ==
  /\ []C2_NoEmptyAlias
  /\ [][IsDeclaration /\ GetAttr(classes', Len(classes'), "alias") = ""
          => registry' = registry]_vars

C2_Witness ==
  /\ result.op = "declare"
  /\ GetAttr(classes, result.cls, "alias") = ""
  /\ classes[result.cls].parent # RemoteSource
  /\ GetAttr(classes, classes[result.cls].parent, "alias") # ""

C4_AbsentIsNone ==
  result.op = "get_source" /\ Declared(result.realm, result.alias) = {}
    => result.ret = None /\ result.raised = ""

C4_Witness ==
  /\ result.op = "get_source"
  /\ result.ret = None
  /\ result.realm \in RealmChoices
  /\ \E R \in AllRealms \ {result.realm} : Declared(R, result.alias) # {}
  /\ \A a \in AliasChoices \ {""} : Declared(result.realm, a) = {}

C6_EnumNotCached ==
  [][/\ \A i \in DOMAIN held : i \in DOMAIN held' /\ held'[i] = held[i]
     /\ result'.op = "get_enum" =>
          \A i \in DOMAIN held :
            held[i].realm = result'.realm =>
              {result'.items[j].name : j \in DOMAIN result'.items}
                = DictKeys(Sources(registry', result'.realm))]_vars

C6_Witness ==
  /\ result.op = "get_enum"
  /\ held # << >>
  /\ held[1].realm = result.realm
  /\ Len(held[1].enum) < Len(result.items)

\* C7: fetch_list raises NotImplementedError exactly when neither the class
\* nor any of its base classes below RemoteSource defines fetch_list.
C7_FetchListNotImplemented ==
  result.op = "fetch_list" =>
    (result.raised = "NotImplementedError"
       <=> \A c \in Lineage(result.cls) : classes[c].fetch_list = Unset)

C7_Witness ==
  /\ result.op = "fetch_list"
  /\ result.raised = "NotImplementedError"
  /\ result.cls # RemoteSource
  /\ classes[result.cls].parent # RemoteSource

\* C8: the aliases of a realm are pairwise distinct, and no declaration,
\* lookup or get_enum call raises.
C8_NothingRaises ==
  /\ \A r \in DOMAIN registry : \A i, j \in DOMAIN registry[r] :
       i # j => registry[r][i].key # registry[r][j].key
  /\ result.op \in {"declare", "get_sources", "get_source", "get_enum"}
       => result.raised = ""

C8_Witness ==
  /\ result.op = "get_enum"
  /\ result.raised = ""
  /\ \E a \in LookupAliases : Cardinality(Declared(result.realm, a)) >= 2

\* C9 as claimed: a query leaves the registry unchanged, realm keys included.
C9_QueriesLeaveRegistryUnchanged == [][IsQuery => registry' = registry]_vars

\* C9: a query leaves every realm's sources unchanged and removes no realm
\* key; the one change it can make is to add the key of the realm it looked
\* up, with no sources.  The sources of a realm change in declarations only.
C9_QueriesLeaveSourcesUnchanged ==
  /\ [][IsQuery =>
          /\ \A R \in AllRealms : Sources(registry', R) = Sources(registry, R)
          /\ DOMAIN registry \subseteq DOMAIN registry'
          /\ DOMAIN registry' \ DOMAIN registry \subseteq {result'.realm}]_vars
  /\ [][(\E R \in AllRealms : Sources(registry', R) # Sources(registry, R))
          => IsDeclaration]_vars

C9_Witness ==
  /\ result.op \in {"get_sources", "get_source", "get_enum"}
  /\ result.realm \in DOMAIN registry
  /\ registry[result.realm] = EmptyDict
  /\ \E R \in DOMAIN registry : registry[R] # EmptyDict

\* C10: a subclass of a class D declared with alias a in realm R that sets
\* no alias of its own is registered under a: in R, replacing D, when it sets
\* no other realm, and in R2 with (R, a) left as it was when it sets realm R2.
C10_SubclassInheritsAlias ==
  [][IsDeclaration =>
       LET c == Len(classes')
           D == classes'[c].parent
           a == GetAttr(classes, D, "alias")
           R == GetAttr(classes, D, "realm")
           R2 == classes'[c].realm
       IN D # RemoteSource /\ a # "" /\ classes'[c].alias = Unset =>
            IF R2 \in {Unset, R}
              THEN /\ get_source(registry', classes', c, a).ret = c
                   /\ \A r \in DOMAIN registry' : D \notin DictValues(registry'[r])
              ELSE /\ DictGet(Sources(registry', R2), a) = c
                   /\ DictGet(Sources(registry', R), a) = DictGet(Sources(registry, R), a)
                   /\ DictGet(Sources(registry, R), a) = D
                        => get_source(registry', classes', D, a).ret = D]_vars

C10_Witness ==
  /\ result.op = "declare"
  /\ classes[result.cls].parent # RemoteSource
  /\ classes[result.cls].alias = Unset
  /\ classes[result.cls].realm = Unset
  /\ GetAttr(classes, result.cls, "alias") # ""
  /\ get_source(registry, classes, result.cls,
                GetAttr(classes, result.cls, "alias")).ret = result.cls

====
